---- MODULE Spec2Model ----
(***************************************************************************)
(* The search endpoint of career-search: the three versions of the POST    *)
(* handler found in the repository (the cached handler of                  *)
(* src/app/api/search/route.ts, the allSettled handler of the unnamed      *)
(* route file and the job-listing handler), the LRU/TTL cache the first    *)
(* one uses, the search-results fetcher and the two insight generators.    *)
(***************************************************************************)
EXTENDS Integers, Sequences, FiniteSets, TLC

\* ------------------------------------------------------------------ bounds

\* Scaled stand-in for the cache capacity (max: 100 in the source).
CacheMax == 2
\* Scaled stand-in for the cache TTL (one hour in the source), in clock ticks.
TTL == 1
\* The clock stops advancing here.
MaxTime == 2
\* Requests received in one behaviour of the orchestration specification.
MaxRequests == 1
\* Requests received in one behaviour of the cache specification.
MaxCacheRequests == 4
\* Requests received in one behaviour of the serving specification.
MaxServeRequests == 3
\* Requests received in one behaviour of the overlap specification.
MaxOverlapRequests == 3
\* The longest list of organic results the search provider returns.
MaxResults == 12
\* Lists of up to this many results are enumerated in full.
MaxShort == 3
MaxSearches == 22
MaxStatusSearches == 2
MaxWait == 3

\* ------------------------------------------------------------------ strings

\* A string is a sequence of characters over a small alphabet.
LowerChar(c) == IF c = "A" THEN "a" ELSE IF c = "B" THEN "b" ELSE c

toLowerCase(s) == [i \in DOMAIN s |-> LowerChar(s[i])]

RECURSIVE trimStart(_)
trimStart(s) == IF s # <<>> /\ Head(s) = " " THEN trimStart(Tail(s)) ELSE s

RECURSIVE trimEnd(_)
trimEnd(s) ==
  IF s # <<>> /\ s[Len(s)] = " " THEN trimEnd(SubSeq(s, 1, Len(s) - 1)) ELSE s

trim(s) == trimEnd(trimStart(s))

\* Faulty variant of cacheKey: the query is trimmed but keeps its letter case.
cacheKeyNoLower(q) == trim(q)

\* const cacheKey = query.toLowerCase().trim();
cacheKey(q) == trim(toLowerCase(q))

\* ------------------------------------------------------------------ request bodies

\* The query field of a parsed body: undefined, a number or a string.  Two
\* bodies have no query field to read: one that is not JSON (request.json()
\* rejects) and the JSON value null (destructuring it throws a TypeError).
Malformed == [type |-> "malformed", str |-> <<>>, num |-> 0]
Null == [type |-> "null", str |-> <<>>, num |-> 0]
Undefined == [type |-> "undefined", str |-> <<>>, num |-> 0]
Num(n) == [type |-> "number", str |-> <<>>, num |-> n]
Str(s) == [type |-> "string", str |-> s, num |-> 0]

\* const { query } = await request.json() throws.
BodyThrows(body) == body.type \in {"malformed", "null"}

\* JavaScript's !query.
Falsy(q) ==
  \/ q.type = "undefined"
  \/ q.type = "number" /\ q.num = 0
  \/ q.type = "string" /\ q.str = <<>>

\* Faulty variant of InvalidQuery: the empty string is let through.
InvalidQueryLax(q) == q.type # "string"

\* if (!query || typeof query !== 'string')
InvalidQuery(q) == Falsy(q) \/ q.type # "string"

\* ------------------------------------------------------------------ the cache

\* searchCache is a sequence of entries [key, value, start], least recently
\* used first.  An entry is stale once its age exceeds the TTL; a get never
\* renews the age (updateAgeOnGet is off by default).
IndexOf(c, k) ==
  IF \E i \in DOMAIN c : c[i].key = k
  THEN CHOOSE i \in DOMAIN c : c[i].key = k
  ELSE 0

Remove(c, i) == SubSeq(c, 1, i - 1) \o SubSeq(c, i + 1, Len(c))

\* Faulty variant of IsStale: an entry never expires.
IsStaleNever(e, t) == FALSE

IsStale(e, t) == t - e.start > TTL

\* A use of entry i makes it the most recently used.
Touch(c, i) == Remove(c, i) \o <<c[i]>>

\* searchCache.get(cacheKey): [hit, value, cache]; a stale entry is deleted
\* and reported as absent.
CacheGet(c, k, t, none) ==
  LET i == IndexOf(c, k) IN
  IF i = 0 THEN [hit |-> FALSE, value |-> none, cache |-> c]
  ELSE IF IsStale(c[i], t)
       THEN [hit |-> FALSE, value |-> none, cache |-> Remove(c, i)]
       ELSE [hit |-> TRUE, value |-> c[i].value, cache |-> Touch(c, i)]

\* Faulty variant of Evict: the most recently used entry is dropped.
EvictNewest(c) == SubSeq(c, 1, Len(c) - 1)

\* The entry dropped from a full cache is the least recently used one.
Evict(c) == Tail(c)

\* searchCache.set(cacheKey, response)
CacheSet(c, k, v, t) ==
  LET i == IndexOf(c, k)
      e == [key |-> k, value |-> v, start |-> t] IN
  IF i # 0 THEN Remove(c, i) \o <<e>>
  ELSE IF Len(c) >= CacheMax THEN Evict(c) \o <<e>>
  ELSE c \o <<e>>

\* A key that an object does not carry.
Absent == "absent"

\* ------------------------------------------------------------------ the fetcher

\* An organic result of the search provider is [link, position]: link is the
\* set of the URL patterns the result's URL contains, position the provider's
\* position field (0 when the field is missing: result.position || 0).
Organic(link, position) == [link |-> link, position |-> position]

includes(result, pattern) == pattern \in result.link

\* Faulty variant of IsJobBoard: glassdoor's job pages are let through.
IsJobBoardNoGlassdoor(result) ==
  \/ includes(result, "linkedin.com/jobs")
  \/ includes(result, "indeed.com")

IsJobBoard(result) ==
  \/ includes(result, "linkedin.com/jobs")
  \/ includes(result, "indeed.com")
  \/ includes(result, "glassdoor.com/Job")

\* Faulty variant of Category: the learning platforms are tested first.
CategoryCourseFirst(result) ==
  IF includes(result, "coursera.org") \/ includes(result, "udemy.com")
  THEN "Learning Platform"
  ELSE IF includes(result, "medium.com") \/ includes(result, "dev.to") THEN "Tech Blog"
  ELSE IF includes(result, "github.com") THEN "Code Repository"
  ELSE IF includes(result, "stackoverflow.com") THEN "Q&A Forum"
  ELSE IF includes(result, "wikipedia.org") THEN "Reference"
  ELSE "Resource"

Category(result) ==
  IF includes(result, "medium.com") \/ includes(result, "dev.to") THEN "Tech Blog"
  ELSE IF includes(result, "github.com") THEN "Code Repository"
  ELSE IF includes(result, "stackoverflow.com") THEN "Q&A Forum"
  ELSE IF includes(result, "coursera.org") \/ includes(result, "udemy.com")
       THEN "Learning Platform"
  ELSE IF includes(result, "wikipedia.org") THEN "Reference"
  ELSE "Resource"

Max(a, b) == IF a >= b THEN a ELSE b

\* Faulty variant of RelevanceScore: no floor at 50.
RelevanceScoreNoFloor(result) == 100 - result.position * 5

RelevanceScore(result) == Max(100 - result.position * 5, 50)

\* Faulty variant of TrustScore: the tier of the category decides.
TrustScoreByCategory(result) ==
  IF Category(result) \in {"Code Repository", "Q&A Forum", "Reference"} THEN 90
  ELSE IF Category(result) \in {"Tech Blog", "Learning Platform"} THEN 80
  ELSE 70

\* Faulty variant of TrustScore: the two tiers add up.
TrustScoreAdded(result) ==
  70 + (IF \/ includes(result, "github.com")
           \/ includes(result, "stackoverflow.com")
           \/ includes(result, "wikipedia.org") THEN 20 ELSE 0)
     + (IF \/ includes(result, "medium.com")
           \/ includes(result, "dev.to")
           \/ includes(result, "coursera.org") THEN 10 ELSE 0)

TrustScore(result) ==
  IF \/ includes(result, "github.com")
     \/ includes(result, "stackoverflow.com")
     \/ includes(result, "wikipedia.org") THEN 90
  ELSE IF \/ includes(result, "medium.com")
          \/ includes(result, "dev.to")
          \/ includes(result, "coursera.org") THEN 80
  ELSE 70

AccessType(result) ==
  IF includes(result, "medium.com") THEN "premium"
  ELSE IF includes(result, "coursera.org") \/ includes(result, "udemy.com")
       THEN "premium"
  ELSE IF \/ includes(result, "github.com")
          \/ includes(result, "stackoverflow.com")
          \/ includes(result, "wikipedia.org") THEN "free"
  ELSE IF includes(result, "dev.to") THEN "registration"
  ELSE "unknown"

\* Faulty variant of IsPremium: udemy.com is left out of the list.
IsPremiumNoUdemy(result) ==
  \/ includes(result, "medium.com")
  \/ includes(result, "coursera.org")

IsPremium(result) ==
  \/ includes(result, "medium.com")
  \/ includes(result, "udemy.com")
  \/ includes(result, "coursera.org")

\* websiteRecommendations.push({...})
Recommendation(result) ==
  [url |-> result.link,
   category |-> Category(result),
   relevanceScore |-> RelevanceScore(result),
   trustScore |-> TrustScore(result),
   isPremium |-> IsPremium(result),
   accessType |-> AccessType(result)]

\* organic_results.forEach: job-board results are skipped, the others pushed.
RECURSIVE Collect(_)
Collect(raw) ==
  IF raw = <<>> THEN <<>>
  ELSE IF IsJobBoard(Head(raw)) THEN Collect(Tail(raw))
  ELSE <<Recommendation(Head(raw))>> \o Collect(Tail(raw))

\* Array.prototype.sort with (a, b) => b.relevanceScore - a.relevanceScore is
\* a stable sort: x goes after every element whose score is not smaller.
\* Faulty variant of Insert: x goes before the elements of its own score.
RECURSIVE InsertUnstable(_, _)
InsertUnstable(sorted, x) ==
  IF sorted = <<>> THEN <<x>>
  ELSE IF Head(sorted).relevanceScore > x.relevanceScore
       THEN <<Head(sorted)>> \o InsertUnstable(Tail(sorted), x)
       ELSE <<x>> \o sorted

RECURSIVE Insert(_, _)
Insert(sorted, x) ==
  IF sorted = <<>> THEN <<x>>
  ELSE IF Head(sorted).relevanceScore >= x.relevanceScore
       THEN <<Head(sorted)>> \o Insert(Tail(sorted), x)
       ELSE <<x>> \o sorted

RECURSIVE SortByRelevance(_)
SortByRelevance(recs) ==
  IF recs = <<>> THEN <<>>
  ELSE Insert(SortByRelevance(SubSeq(recs, 1, Len(recs) - 1)), recs[Len(recs)])

\* Array.prototype.slice(0, n)
Slice(s, n) == SubSeq(s, 1, IF Len(s) < n THEN Len(s) ELSE n)

\* The cap of the recommendation list: 10 in the allSettled handler's file,
\* 6 in the job-listing handler's.
Cap(v) == IF v = "jobs" THEN 6 ELSE 10

\* The recommendation as the file of handler v builds it: the job-listing
\* file's push has no accessType.
Built(rec, v) == IF v = "jobs" THEN [rec EXCEPT !.accessType = Absent] ELSE rec

\* getSerpResults, on a provider response that carries organic results raw.
getSerpResults(raw, v) ==
  LET recs == Slice(SortByRelevance(Collect(raw)), Cap(v)) IN
  [i \in DOMAIN recs |-> Built(recs[i], v)]

\* ------------------------------------------------------------------ the generators

\* A completion of the provider is [kind, obj]: the call rejects, or it
\* resolves with content that is not JSON ("unparseable"), with no content
\* ("empty", parsed as '{}'), or with the JSON object obj ("json").  An object
\* is a record of the fields it carries, with their set has.
MarketFields ==
  {"demandTrend", "trendPercentage", "averageSalary", "salaryTrend",
   "topCompanies", "requiredSkills", "jobGrowthRate", "locationInsights",
   "industryBreakdown"}

InsightFields ==
  {"practicalGuides", "theoreticalInsight", "contradictoryTake", "relatedSearches"}

\* The object {}.
EmptyObject == [has |-> {}]

\* The fallback structure of getMarketInsights and of the handler.
FallbackMarket ==
  [has |-> MarketFields, demandTrend |-> "stable", trendPercentage |-> 0,
   averageSalary |-> "Not available", salaryTrend |-> "stable",
   topCompanies |-> <<>>, requiredSkills |-> <<>>, jobGrowthRate |-> "N/A",
   locationInsights |-> <<>>, industryBreakdown |-> <<>>]

\* The fallback structure of generateInsights and of the handler.
FallbackInsights ==
  [has |-> InsightFields, practicalGuides |-> <<>>, theoreticalInsight |-> "",
   contradictoryTake |-> "", relatedSearches |-> <<>>]

Reject == "reject"
Unparseable == "unparseable"
Empty == "empty"
Json == "json"

\* JSON.parse(completion.choices[0].message.content || '{}'), when it returns.
Parsed(out, emptyObject) == IF out.kind = Empty THEN emptyObject ELSE out.obj

Throws(out) == out.kind \in {Reject, Unparseable}

\* Faulty variant of getMarketInsights: no fallback structure in the catch.
getMarketInsightsNoFallback(out) ==
  IF Throws(out) THEN EmptyObject ELSE Parsed(out, EmptyObject)

\* getMarketInsights: the parsed object as it is, the fallback when the call
\* or the parse throws.
getMarketInsights(out) ==
  IF Throws(out) THEN FallbackMarket ELSE Parsed(out, EmptyObject)

\* response.field || default
OrElse(obj, field, default) ==
  IF field \in obj.has THEN obj[field] ELSE default

\* generateInsights: every field defaulted, the fallback when the call or the
\* parse throws.
generateInsights(out) ==
  IF Throws(out) THEN FallbackInsights
  ELSE LET response == Parsed(out, EmptyObject) IN
       [has |-> InsightFields,
        practicalGuides |-> OrElse(response, "practicalGuides", <<>>),
        theoreticalInsight |-> OrElse(response, "theoreticalInsight", ""),
        contradictoryTake |-> OrElse(response, "contradictoryTake", ""),
        relatedSearches |-> OrElse(response, "relatedSearches", <<>>)]

\* ------------------------------------------------------------------ responses

\* The data payload is a record of its top-level keys, with their set has.
NoData == [has |-> {}]

\* A response is [status, success, error, hasData, data, cached, warnings];
\* a key the JSON body lacks is Absent.

NoResponse == [status |-> 0]

ErrorResponse(status, success, error) ==
  [status |-> status, success |-> success, error |-> error, hasData |-> FALSE,
   data |-> NoData, cached |-> Absent, warnings |-> Absent]

OkResponse(data, cached, warnings) ==
  [status |-> 200, success |-> "true", error |-> Absent, hasData |-> TRUE,
   data |-> data, cached |-> cached, warnings |-> warnings]

QueryRequired == "Query is required and must be a string"
SerpKeyMissing == "SerpAPI key is not configured"
SerpFailed == "SerpAPI search failed"
ProviderError == "provider error"
BodyError == "Unexpected end of JSON input"
SyntaxError == "Unexpected token"
AiSkippedWarning == "OpenAI API key not configured. AI insights are skipped."

\* Faulty variant of Warnings: never a warning.
WarningsNever(ai) == Absent

\* warnings: !process.env.OPENAI_API_KEY ? "..." : undefined
Warnings(ai) == IF ~ai THEN AiSkippedWarning ELSE Absent

StatusMessage(ai) ==
  IF ai THEN "Search and analysis complete" ELSE "Search complete (AI skipped)"

\* The SearchResponse of the allSettled handlers.
SettledData(insights, market, recs, ai) ==
  [has |-> InsightFields \cup {"marketInsights", "recommendedWebsites", "status"},
   practicalGuides |-> insights.practicalGuides,
   theoreticalInsight |-> insights.theoreticalInsight,
   contradictoryTake |-> insights.contradictoryTake,
   relatedSearches |-> insights.relatedSearches,
   marketInsights |-> market,
   recommendedWebsites |-> recs,
   message |-> StatusMessage(ai)]

\* The SearchResponse of the cached handler: { ...insights, recommendedWebsites, status }.
CachedData(insights, recs) ==
  [has |-> insights.has \cup {"recommendedWebsites", "status"},
   recommendedWebsites |-> recs,
   message |-> "Search completed successfully"] @@ insights

\* ------------------------------------------------------------------ state

VARIABLES
  variant,   \* which version of the handler is deployed
  serpKey,   \* the search provider's key is set in the environment
  aiKey,     \* OPENAI_API_KEY is set in the environment
  now,       \* the clock
  cache,     \* searchCache
  req,       \* the requests in the handler, by slot
  nreq,      \* requests received so far
  lastOk,    \* history: by normal form of the query, the last computed success
  evicted,   \* history: keys evicted from a full cache since they were stored
  recency,   \* history: the keys used (hit or stored), least recent first
  health,    \* the last response of the health-check endpoint
  secrets,   \* the values of the credentials in process.env
  dbg,       \* the request in the debug endpoint
  page,      \* which version of the client page is rendered
  ui         \* the state of the client page

vars ==
  <<variant, serpKey, aiKey, now, cache, req, nreq, lastOk, evicted, recency,
    health, secrets, dbg, page, ui>>

hist == <<lastOk, evicted, recency>>

env == <<variant, serpKey, aiKey>>

\* The state outside the search handler: the other endpoints and the client.
rest == <<health, secrets, dbg, page, ui>>

\* No health check has been answered yet.
NoProbe == [status |-> "none", version |-> "", timestamp |-> 0]

\* A credential of the given presence.
Secret(set) == IF set THEN Str(<<"k">>) ELSE Undefined

\* The debug endpoint before its first request.
NoTest == [status |-> "null", resultCount |-> 0, message |-> ""]

NoDebugResponse ==
  [status |-> 0, timestamp |-> 0,
   environment |-> [OPENAI_API_KEY |-> "", SERP_API_KEY |-> ""],
   serpApiTest |-> NoTest]

DebugIdle ==
  [pc |-> "idle", testQuery |-> <<>>, calls |-> 0, outcome |-> "none",
   resp |-> NoDebugResponse]

\* useState(null) of results.
NoResults == [has |-> FALSE, stamp |-> 0]

\* useState of searchStatus.
Status(phase, progress) == [phase |-> phase, progress |-> progress]

\* The client page after mount: nothing searched, nothing stored.
Mounted ==
  [pc |-> "idle", query |-> <<>>, isLoading |-> FALSE, seen |-> FALSE,
   results |-> NoResults, searchStatus |-> Status("complete", 0),
   searchHistory |-> <<>>, totalSearches |-> 0,
   storedValue |-> [searchHistory |-> <<>>, totalSearches |-> 0],
   sent |-> 0, submits |-> 0, stamp |-> 0, clk |-> 0, timers |-> {},
   toast |-> "none", outcome |-> "none"]

\* The other endpoints and the client while only the search handler runs.
RestInit ==
  /\ health = NoProbe
  /\ secrets = [OPENAI_API_KEY |-> Secret(aiKey), SERP_API_KEY |-> Secret(serpKey)]
  /\ dbg = DebugIdle
  /\ page = "status"
  /\ ui = Mounted

Slots == DOMAIN req

Settled == {"full", "jobs"}

\* The queries submitted, and the bodies that carry them.
Queries == {<<" ", " ">>, <<"a">>, <<" ", "A", " ">>, <<"b">>}

Bodies == {Undefined, Num(123), Str(<<>>)} \cup {Str(q) : q \in Queries}

\* The normal form the specification gives a query: trimmed, then lower-cased.
NormalForm(q) == toLowerCase(trim(q))

Keys == {NormalForm(q) : q \in Queries}

NoPrior == [has |-> FALSE]

NoOutcome == [kind |-> "none", obj |-> EmptyObject]

Idle ==
  [pc |-> "idle", query |-> Undefined, key |-> <<>>,
   serp |-> "none", raw |-> <<>>, cur |-> "none", web |-> "none", recs |-> <<>>,
   market |-> "none", marketOut |-> NoOutcome,
   ins |-> "none", insOut |-> NoOutcome,
   resp |-> NoResponse, serpCalls |-> 0, aiCalls |-> 0,
   prior |-> NoPrior, priorEvicted |-> FALSE, at |-> 0, gets |-> 0]

\* No call of the request is in flight.
Quiet(q) ==
  /\ q.serp # "pending"
  /\ q.cur # "pending"
  /\ q.market # "pending"
  /\ q.ins # "pending"

\* A slot takes a new request once the previous one has been answered and
\* its calls have settled.
Free(r) == req[r].pc = "idle" \/ (req[r].pc = "done" /\ Quiet(req[r]))

\* The request as the handler receives it.
Received(body) ==
  LET k == IF body.type = "string" THEN NormalForm(body.str) ELSE <<>> IN
  [Idle EXCEPT !.query = body, !.at = now,
               !.prior = IF k \in Keys THEN lastOk[k] ELSE NoPrior,
               !.priorEvicted = k \in evicted]

Done(q, response) == [q EXCEPT !.pc = "done", !.resp = response]

\* A computed success is recorded under the normal form of its query.
Record(q, data) ==
  [lastOk EXCEPT ![NormalForm(q.query.str)] =
     [has |-> TRUE, data |-> data, at |-> now, by |-> q.query.str, serp |-> q.serp]]

\* A use of key k makes it the most recent of the keys used.
RECURSIVE Without(_, _)
Without(s, k) ==
  IF s = <<>> THEN <<>>
  ELSE IF Head(s) = k THEN Without(Tail(s), k)
  ELSE <<Head(s)>> \o Without(Tail(s), k)

Use(k) == Without(recency, k) \o <<k>>

TypeOK ==
  /\ variant \in {"cached", "full", "jobs"}
  /\ serpKey \in BOOLEAN
  /\ aiKey \in BOOLEAN
  /\ now \in 0..MaxTime
  /\ Len(cache) <= CacheMax
  /\ nreq \in Nat
  /\ \A r \in Slots : req[r].pc \in {"idle", "waiting", "done"}

InitState ==
  /\ now = 0
  /\ cache = <<>>
  /\ req = [r \in {"r1"} |-> Idle]
  /\ nreq = 0
  /\ lastOk = [k \in Keys |-> NoPrior]
  /\ evicted = {}
  /\ recency = <<>>
  /\ RestInit

Init ==
  /\ variant \in {"cached", "full", "jobs"}
  /\ serpKey \in BOOLEAN
  /\ aiKey \in BOOLEAN
  /\ InitState

\* ------------------------------------------------------------------ the cached handler

\* The fan-out of the cached handler: getWebsiteRecommendations throws before
\* any call when SERPAPI_KEY is missing, and the handler's catch turns that
\* into []; the insights completion is requested in either case.
LaunchCached(q, k) ==
  [q EXCEPT !.pc = "waiting", !.key = k,
            !.serp = IF serpKey THEN "pending" ELSE "none",
            !.web = IF serpKey THEN "pending" ELSE "fulfilled",
            !.serpCalls = IF serpKey THEN 1 ELSE 0,
            !.ins = "pending", !.aiCalls = 1]

\* POST of the cached handler, up to its first provider call; limit bounds
\* the requests of a behaviour.
POSTCached(r, body, limit) ==
  /\ variant = "cached"
  /\ nreq < limit
  /\ Free(r)
  /\ LET q == Received(body) IN
     IF BodyThrows(body)
     THEN /\ req' = [req EXCEPT ![r] = Done(q, ErrorResponse(500, "false", BodyError))]
          /\ UNCHANGED <<cache, recency>>
     ELSE IF InvalidQuery(body)
     THEN /\ req' = [req EXCEPT ![r] = Done(q, ErrorResponse(400, Absent, QueryRequired))]
          /\ UNCHANGED <<cache, recency>>
     ELSE LET k == cacheKey(body.str)
              g == CacheGet(cache, k, now, NoData) IN
          /\ cache' = g.cache
          /\ recency' = IF g.hit THEN Use(k) ELSE recency
          /\ req' = [req EXCEPT ![r] =
               IF g.hit
               THEN Done([q EXCEPT !.key = k, !.gets = 1],
                         OkResponse(g.value, "true", Absent))
               ELSE LaunchCached([q EXCEPT !.gets = 1], k)]
  /\ nreq' = nreq + 1
  /\ UNCHANGED <<env, rest, now, lastOk, evicted>>

\* Faulty variant of AllRejected: a rejection of the insights call is never
\* noticed.
AllRejectedNever(q) == FALSE

\* The Promise.all of the cached handler rejects as soon as the insights call
\* rejects, and resolves once both branches have resolved.
AllRejected(q) == q.ins = "rejected"

AllResolved(q) == q.web = "fulfilled" /\ q.ins = "fulfilled"

\* Faulty variant of StoreCached: nothing is stored.
StoreCachedNever(c, q, data) == c

\* searchCache.set(cacheKey, response) of the cached handler.
StoreCached(c, q, data) == CacheSet(c, q.key, data, now)

\* The entry a store evicts, if any.
Victims(c, k) ==
  IF IndexOf(c, k) = 0 /\ Len(c) >= CacheMax
  THEN {c[i].key : i \in DOMAIN c} \ {Evict(c)[i].key : i \in DOMAIN Evict(c)}
  ELSE {}

\* The cached handler after its await: the catch block, or the assembly of
\* the response, its store and its return.
RespondCached(r) ==
  LET q == req[r] IN
  /\ variant = "cached"
  /\ q.pc = "waiting"
  /\ AllRejected(q) \/ AllResolved(q)
  /\ IF AllRejected(q)
     THEN /\ req' = [req EXCEPT ![r] = Done(q, ErrorResponse(500, "false", ProviderError))]
          /\ UNCHANGED <<cache, hist>>
     ELSE IF q.insOut.kind = Unparseable
     THEN /\ req' = [req EXCEPT ![r] = Done(q, ErrorResponse(500, "false", SyntaxError))]
          /\ UNCHANGED <<cache, hist>>
     ELSE LET data == CachedData(Parsed(q.insOut, EmptyObject), q.recs) IN
          /\ cache' = StoreCached(cache, q, data)
          /\ req' = [req EXCEPT ![r] = Done(q, OkResponse(data, "false", Absent))]
          /\ lastOk' = Record(q, data)
          /\ evicted' = (evicted \cup Victims(cache, q.key)) \ {q.key}
          /\ recency' = Use(q.key)
  /\ UNCHANGED <<env, rest, now, nreq>>

\* The curation completion of getWebsiteRecommendations settles: the parsed
\* recommendations cut to five, or [] when the call or the parse throws.
CurateSettle(r, out) ==
  LET q == req[r] IN
  /\ variant = "cached"
  /\ q.cur = "pending"
  /\ aiKey \/ out.kind = Reject
  /\ req' = [req EXCEPT ![r] =
       [q EXCEPT !.cur = "done", !.web = "fulfilled",
                 !.recs = IF out.kind = Json THEN Slice(out.recs, 5) ELSE <<>>]]
  /\ UNCHANGED <<env, rest, now, cache, nreq, hist>>

\* ------------------------------------------------------------------ the allSettled handlers

\* The fan-out of the allSettled handlers: the search call, and the two
\* generator calls when OPENAI_API_KEY is set (Promise.resolve(null) otherwise).
LaunchSettled(q) ==
  [q EXCEPT !.pc = "waiting",
            !.serp = "pending", !.web = "pending", !.serpCalls = 1,
            !.market = IF aiKey THEN "pending" ELSE "fulfilled",
            !.marketOut = IF aiKey THEN NoOutcome ELSE [kind |-> "null", obj |-> EmptyObject],
            !.ins = IF aiKey THEN "pending" ELSE "fulfilled",
            !.insOut = IF aiKey THEN NoOutcome ELSE [kind |-> "null", obj |-> EmptyObject],
            !.aiCalls = IF aiKey THEN 2 ELSE 0]

\* POST of the allSettled handlers, up to their first provider call; limit
\* bounds the requests of a behaviour.
POSTSettled(r, body, limit) ==
  /\ variant \in Settled
  /\ nreq < limit
  /\ Free(r)
  /\ LET q == Received(body) IN
     req' = [req EXCEPT ![r] =
       IF BodyThrows(body) THEN Done(q, ErrorResponse(500, "false", BodyError))
       ELSE IF InvalidQuery(body) THEN Done(q, ErrorResponse(400, Absent, QueryRequired))
       ELSE IF ~serpKey THEN Done(q, ErrorResponse(500, Absent, SerpKeyMissing))
       ELSE LaunchSettled(q)]
  /\ nreq' = nreq + 1
  /\ UNCHANGED <<env, rest, now, cache, hist>>

\* Promise.allSettled resolves once the three promises have settled.
AllSettled(q) ==
  /\ q.web \in {"fulfilled", "rejected"}
  /\ q.market = "fulfilled"
  /\ q.ins = "fulfilled"

\* value !== null ? value : fallback
OrFallback(out, fallback) == IF out.kind = "null" THEN fallback ELSE out.obj

\* The allSettled handlers after their await.
RespondSettled(r) ==
  LET q == req[r] IN
  /\ variant \in Settled
  /\ q.pc = "waiting"
  /\ AllSettled(q)
  /\ IF q.web = "rejected"
     THEN /\ req' = [req EXCEPT ![r] = Done(q, ErrorResponse(500, "false", SerpFailed))]
          /\ UNCHANGED lastOk
     ELSE LET data == SettledData(OrFallback(q.insOut, FallbackInsights),
                                  OrFallback(q.marketOut, FallbackMarket),
                                  q.recs, aiKey) IN
          /\ req' = [req EXCEPT ![r] = Done(q, OkResponse(data, Absent, Warnings(aiKey)))]
          /\ lastOk' = Record(q, data)
  /\ UNCHANGED <<env, rest, now, cache, nreq, evicted, recency>>

\* getMarketInsights settles; it never rejects.
MarketSettle(r, out) ==
  LET q == req[r] IN
  /\ q.market = "pending"
  /\ req' = [req EXCEPT ![r] =
       [q EXCEPT !.market = "fulfilled",
                 !.marketOut = [kind |-> out.kind, obj |-> getMarketInsights(out)]]]
  /\ UNCHANGED <<env, rest, now, cache, nreq, hist>>

\* ------------------------------------------------------------------ the provider calls

\* The search call settles.  In the cached handler a failure or an empty
\* result list ends getWebsiteRecommendations with [], and a non-empty list
\* starts the curation completion; in the allSettled handlers the fetcher
\* rejects or resolves with its recommendations.
SerpSettle(r, out) ==
  LET q == req[r] IN
  /\ q.serp = "pending"
  /\ req' = [req EXCEPT ![r] =
       IF variant = "cached"
       THEN IF out.kind = "ok" /\ out.raw # <<>>
            THEN [q EXCEPT !.serp = out.kind, !.raw = out.raw, !.cur = "pending",
                           !.aiCalls = @ + 1]
            ELSE [q EXCEPT !.serp = out.kind, !.web = "fulfilled", !.recs = <<>>]
       ELSE IF out.kind = "ok"
            THEN [q EXCEPT !.serp = "ok", !.raw = out.raw, !.web = "fulfilled",
                           !.recs = getSerpResults(out.raw, variant)]
            ELSE [q EXCEPT !.serp = "fail", !.web = "rejected"]]
  /\ UNCHANGED <<env, rest, now, cache, nreq, hist>>

\* The insights completion settles: the raw completion in the cached handler
\* (parsed after the await), generateInsights' value in the allSettled ones.
InsightsSettle(r, out) ==
  LET q == req[r] IN
  /\ q.ins = "pending"
  /\ aiKey \/ out.kind = Reject
  /\ req' = [req EXCEPT ![r] =
       IF variant = "cached"
       THEN IF out.kind = Reject
            THEN [q EXCEPT !.ins = "rejected", !.insOut = out]
            ELSE [q EXCEPT !.ins = "fulfilled", !.insOut = out]
       ELSE [q EXCEPT !.ins = "fulfilled",
                      !.insOut = [kind |-> out.kind, obj |-> generateInsights(out)]]]
  /\ UNCHANGED <<env, rest, now, cache, nreq, hist>>

Tick ==
  /\ now < MaxTime
  /\ now' = now + 1
  /\ UNCHANGED <<env, rest, cache, req, nreq, hist>>

\* ------------------------------------------------------------------ inputs

\* Responses of the search provider: no organic results, job-board results
\* only, and a mixed list.
RawJobs == <<Organic({"indeed.com"}, 1)>>

RawMixed ==
  <<Organic({"github.com"}, 1), Organic({"linkedin.com/jobs"}, 2), Organic({}, 3)>>

SerpFail == [kind |-> "fail", raw |-> <<>>]

SerpOk(raw) == [kind |-> "ok", raw |-> raw]

SerpOutcomes == {SerpFail, SerpOk(<<>>), SerpOk(RawJobs), SerpOk(RawMixed)}

\* Completions of the insights prompt.
Insights(n) ==
  [has |-> InsightFields, practicalGuides |-> <<"step", n>>,
   theoreticalInsight |-> "insight", contradictoryTake |-> "take",
   relatedSearches |-> <<"related">>]

PartialInsights == [has |-> {"practicalGuides"}, practicalGuides |-> <<"step">>]

Completion(kind, obj) == [kind |-> kind, obj |-> obj]

InsightOutcomes ==
  {Completion(Reject, EmptyObject), Completion(Unparseable, EmptyObject),
   Completion(Empty, EmptyObject), Completion(Json, PartialInsights),
   Completion(Json, Insights("one"))}

\* Completions of the market prompt.
Market ==
  [has |-> MarketFields, demandTrend |-> "rising", trendPercentage |-> 12,
   averageSalary |-> "$120k", salaryTrend |-> "up", topCompanies |-> <<"Acme">>,
   requiredSkills |-> <<"sql">>, jobGrowthRate |-> "8%",
   locationInsights |-> <<"NYC">>, industryBreakdown |-> <<"tech">>]

MarketOutcomes ==
  {Completion(Reject, EmptyObject), Completion(Unparseable, EmptyObject),
   Completion(Empty, EmptyObject), Completion(Json, Market)}

\* Completions of the curation prompt.
Curated ==
  <<[url |-> {"coursera.org"}, category |-> "Course", relevanceScore |-> 90,
     trustScore |-> 0, isPremium |-> FALSE, accessType |-> "unknown"]>>

Curation(kind, recs) == [kind |-> kind, recs |-> recs]

CurateOutcomes ==
  {Curation(Reject, <<>>), Curation(Unparseable, <<>>), Curation(Json, Curated)}

\* ------------------------------------------------------------------ the orchestration specification

\* One request at a time, every outcome of every provider call.
Next ==
  \/ \E b \in Bodies : POSTCached("r1", b, MaxRequests)
  \/ \E b \in Bodies : POSTSettled("r1", b, MaxRequests)
  \/ \E out \in SerpOutcomes : SerpSettle("r1", out)
  \/ \E out \in CurateOutcomes : CurateSettle("r1", out)
  \/ \E out \in MarketOutcomes : MarketSettle("r1", out)
  \/ \E out \in InsightOutcomes : InsightsSettle("r1", out)
  \/ RespondCached("r1")
  \/ RespondSettled("r1")

Spec == Init /\ [][Next]_vars

\* ------------------------------------------------------------------ the cache specification

\* A run of requests, one after the other, against healthy credentials, with
\* the clock advancing; the providers answer, the insights completion in one
\* of two ways.
InitCache ==
  /\ variant \in {"cached", "full"}
  /\ serpKey = TRUE
  /\ aiKey = TRUE
  /\ InitState

CacheBodies == {Str(<<>>)} \cup {Str(q) : q \in Queries}

CacheInsightOutcomes ==
  {Completion(Json, Insights("one")), Completion(Json, Insights("two"))}

NextCache ==
  \/ \E b \in CacheBodies : POSTCached("r1", b, MaxCacheRequests)
  \/ \E b \in CacheBodies : POSTSettled("r1", b, MaxCacheRequests)
  \/ SerpSettle("r1", SerpOk(RawMixed))
  \/ CurateSettle("r1", Curation(Json, Curated))
  \/ MarketSettle("r1", Completion(Json, Market))
  \/ \E out \in CacheInsightOutcomes : InsightsSettle("r1", out)
  \/ RespondCached("r1")
  \/ RespondSettled("r1")
  \/ Tick

SpecCache == InitCache /\ [][NextCache]_vars

\* ------------------------------------------------------------------ the serving specification

\* A run of requests with good and bad bodies against providers that may
\* fail.  Every call the handler awaits settles (the provider answers, or
\* the client's timeout rejects it), and a settled await is resumed: the
\* steps of a request in flight are taken under weak fairness.
ServeBodies == {Malformed, Null, Str(<<>>), Str(<<"a">>), Str(<<"b">>)}

ServeInsightOutcomes ==
  {Completion(Reject, EmptyObject), Completion(Unparseable, EmptyObject),
   Completion(Json, Insights("one"))}

Progress ==
  \/ \E out \in {SerpFail, SerpOk(RawMixed)} : SerpSettle("r1", out)
  \/ \E out \in {Curation(Reject, <<>>), Curation(Json, Curated)} : CurateSettle("r1", out)
  \/ MarketSettle("r1", Completion(Json, Market))
  \/ \E out \in ServeInsightOutcomes : InsightsSettle("r1", out)
  \/ RespondCached("r1")
  \/ RespondSettled("r1")

NextServe ==
  \/ \E b \in ServeBodies : POSTCached("r1", b, MaxServeRequests)
  \/ \E b \in ServeBodies : POSTSettled("r1", b, MaxServeRequests)
  \/ Progress
  \/ Tick

SpecServe == InitCache /\ [][NextServe]_vars /\ WF_vars(Progress)

\* ------------------------------------------------------------------ the overlap specification

\* Two requests in the cached handler at once: each await of one request is
\* a point where the other may run.  Credentials and providers are healthy,
\* the clock stands still and the cache is large enough for every key, so no
\* entry expires or is evicted.
InitOverlap ==
  /\ variant = "cached"
  /\ serpKey = TRUE
  /\ aiKey = TRUE
  /\ now = 0
  /\ cache = <<>>
  /\ req = [r \in {"r1", "r2"} |-> Idle]
  /\ nreq = 0
  /\ lastOk = [k \in Keys |-> NoPrior]
  /\ evicted = {}
  /\ recency = <<>>
  /\ RestInit

OverlapBodies == {Str(<<"a">>), Str(<<" ", "A", " ">>), Str(<<"b">>)}

NextOverlap ==
  \E r \in {"r1", "r2"} :
    \/ \E b \in OverlapBodies : POSTCached(r, b, MaxOverlapRequests)
    \/ SerpSettle(r, SerpOk(RawMixed))
    \/ CurateSettle(r, Curation(Json, Curated))
    \/ \E out \in CacheInsightOutcomes : InsightsSettle(r, out)
    \/ RespondCached(r)

SpecOverlap == InitOverlap /\ [][NextOverlap]_vars

\* ------------------------------------------------------------------ the fetcher specification

\* One request of an allSettled handler, launched against healthy providers;
\* the search provider answers with any of a family of organic result lists.
\* The URLs of the results: plain, of one domain, of two domains at once, of
\* a job board.
FetchLinks ==
  {{}, {"github.com"}, {"coursera.org"}, {"github.com", "medium.com"},
   {"github.com", "coursera.org"}, {"indeed.com"}}

\* The position field of the result at 1-based index i of a list of n: the
\* provider's numbering from 1, a numbering from 0, no field at all (read as
\* 0), a numbering that runs against the order of the list, and the
\* numbering of a third page of results.
Numberings == {"from1", "from0", "none", "reverse", "page3"}

PositionAt(numbering, i, n) ==
  CASE numbering = "from1" -> i
    [] numbering = "from0" -> i - 1
    [] numbering = "none" -> 0
    [] numbering = "reverse" -> n + 1 - i
    [] numbering = "page3" -> 20 + i

Numbered(links, numbering) ==
  [i \in 1..Len(links) |-> Organic(links[i], PositionAt(numbering, i, Len(links)))]

\* Every list of up to MaxShort results, one longer list per length up to
\* MaxResults in which the fifth result is a job board's, and the lists of
\* one result whose URL contains up to two of the known domains.
ShortLinks == UNION {[1..n -> FetchLinks] : n \in 0..MaxShort}

JobBoards == <<"indeed.com", "linkedin.com/jobs", "glassdoor.com/Job">>

LongLinks(n) ==
  [i \in 1..n |-> IF i = 5 THEN {JobBoards[(n % 3) + 1]}
                  ELSE IF i % 2 = 1 THEN {"github.com"} ELSE {}]

Domains ==
  {"medium.com", "dev.to", "github.com", "stackoverflow.com", "coursera.org",
   "udemy.com", "wikipedia.org", "glassdoor.com/Job"}

DomainLinks == {<<s>> : s \in {d \in SUBSET Domains : Cardinality(d) <= 2}}

RawLists ==
  {Numbered(links, numbering) :
     links \in ShortLinks \cup DomainLinks
               \cup {LongLinks(n) : n \in (MaxShort + 1)..MaxResults},
     numbering \in Numberings}

InitFetch ==
  /\ variant \in Settled
  /\ serpKey = TRUE
  /\ aiKey = TRUE
  /\ now = 0
  /\ cache = <<>>
  /\ nreq = 1
  /\ lastOk = [k \in Keys |-> NoPrior]
  /\ evicted = {}
  /\ recency = <<>>
  /\ RestInit
  /\ req = [r \in {"r1"} |-> LaunchSettled(Received(Str(<<"a">>)))]

NextFetch ==
  \/ \E raw \in RawLists : SerpSettle("r1", SerpOk(raw))
  \/ MarketSettle("r1", Completion(Json, Market))
  \/ InsightsSettle("r1", Completion(Json, Insights("one")))
  \/ RespondSettled("r1")

SpecFetch == InitFetch /\ [][NextFetch]_vars

\* ------------------------------------------------------------------ the health check

\* Faulty variant of HealthResponse: the version is left out.
HealthResponseNoVersion(t) == [status |-> "healthy", version |-> "", timestamp |-> t]

\* NextResponse.json({status, version, timestamp}) at clock reading t.
HealthResponse(t) == [status |-> "healthy", version |-> "2.0.0", timestamp |-> t]

\* GET of the search route, exported by the allSettled handlers' files: it
\* reads the clock and answers.
GET ==
  /\ variant \in Settled
  /\ health' = HealthResponse(now)
  /\ UNCHANGED <<env, now, cache, req, nreq, hist, secrets, dbg, page, ui>>

\* Requests to an allSettled handler, the clock advancing, with health checks
\* at any moment.
InitHealth ==
  /\ variant \in Settled
  /\ serpKey \in BOOLEAN
  /\ aiKey = TRUE
  /\ InitState

NextHealth ==
  \/ \E b \in {Undefined, Str(<<"a">>)} : POSTSettled("r1", b, MaxRequests)
  \/ \E out \in {SerpFail, SerpOk(RawMixed)} : SerpSettle("r1", out)
  \/ MarketSettle("r1", Completion(Json, Market))
  \/ \E out \in ServeInsightOutcomes : InsightsSettle("r1", out)
  \/ RespondSettled("r1")
  \/ Tick
  \/ GET

SpecHealth == InitHealth /\ [][NextHealth]_vars

\* ------------------------------------------------------------------ the debug endpoint

\* JavaScript's !!value.
Truthy(v) == ~Falsy(v)

\* Faulty variant of EnvStatus: a key that is set is shown.
EnvStatusLeaky(s) ==
  [OPENAI_API_KEY |->
     IF ~Truthy(s.OPENAI_API_KEY) THEN "Missing"
     ELSE IF s.OPENAI_API_KEY = Str(<<"k">>) THEN "Set k" ELSE "Set j",
   SERP_API_KEY |->
     IF ~Truthy(s.SERP_API_KEY) THEN "Missing"
     ELSE IF s.SERP_API_KEY = Str(<<"k">>) THEN "Set k" ELSE "Set j"]

\* envStatus: a mark per key, 'Set' or 'Missing'.
EnvStatus(s) ==
  [OPENAI_API_KEY |-> IF Truthy(s.OPENAI_API_KEY) THEN "Set" ELSE "Missing",
   SERP_API_KEY |-> IF Truthy(s.SERP_API_KEY) THEN "Set" ELSE "Missing"]

\* searchParams.get('query') || 'test query'
TestQuery(param) == IF param = <<>> THEN <<"t">> ELSE param

\* NextResponse.json({timestamp, environment, serpApiTest})
DebugResponse(t, environment, test) ==
  [status |-> 200, timestamp |-> t, environment |-> environment, serpApiTest |-> test]

\* serpApiStatus after the test call: its try block, or its catch block when
\* getJson rejects or the reply cannot be read.
SerpApiStatus(out) ==
  IF out.kind = "ok"
  THEN [status |-> "success", resultCount |-> out.count, message |-> ""]
  ELSE [status |-> "error", resultCount |-> 0, message |-> out.message]

\* GET of the debug route up to its await: the marks are computed, and the
\* test call is made when SERP_API_KEY is set; the response is returned at
\* once otherwise.
DebugGET(param) ==
  /\ dbg.pc # "testing"
  /\ dbg' = IF Truthy(secrets.SERP_API_KEY)
            THEN [DebugIdle EXCEPT !.pc = "testing", !.testQuery = TestQuery(param),
                                   !.calls = 1]
            ELSE [DebugIdle EXCEPT !.pc = "done", !.testQuery = TestQuery(param),
                                   !.resp = DebugResponse(now, EnvStatus(secrets), NoTest)]
  /\ UNCHANGED <<env, now, cache, req, nreq, hist, health, secrets, page, ui>>

\* The test call settles and the response is returned.
DebugTestSettle(out) ==
  /\ dbg.pc = "testing"
  /\ dbg' = [dbg EXCEPT !.pc = "done", !.outcome = out.kind,
                        !.resp = DebugResponse(now, EnvStatus(secrets), SerpApiStatus(out))]
  /\ UNCHANGED <<env, now, cache, req, nreq, hist, health, secrets, page, ui>>

\* Replies of the provider to the test call.
DebugTestOutcomes ==
  {[kind |-> "ok", count |-> 0, message |-> ""],
   [kind |-> "ok", count |-> 1, message |-> ""],
   [kind |-> "throws", count |-> 0, message |-> "Invalid API key"],
   [kind |-> "unreadable", count |-> 0, message |-> "Cannot read properties of undefined"]}

\* The values a credential may have in process.env.
DebugKeyValues == {Undefined, Str(<<>>), Str(<<"k">>), Str(<<"j">>)}

\* Debug requests, one after the other, under every pair of credentials.
InitDebug ==
  /\ variant = "full"
  /\ secrets \in [OPENAI_API_KEY : DebugKeyValues, SERP_API_KEY : DebugKeyValues]
  /\ aiKey = Truthy(secrets.OPENAI_API_KEY)
  /\ serpKey = Truthy(secrets.SERP_API_KEY)
  /\ now = 0
  /\ cache = <<>>
  /\ req = [r \in {"r1"} |-> Idle]
  /\ nreq = 0
  /\ lastOk = [k \in Keys |-> NoPrior]
  /\ evicted = {}
  /\ recency = <<>>
  /\ health = NoProbe
  /\ dbg = DebugIdle
  /\ page = "status"
  /\ ui = Mounted

NextDebug ==
  \/ \E param \in {<<>>, <<"x">>} : DebugGET(param)
  \/ \E out \in DebugTestOutcomes : DebugTestSettle(out)
  \/ Tick

SpecDebug == InitDebug /\ [][NextDebug]_vars

\* ------------------------------------------------------------------ the client

\* The versions of the page: the one with a search status (page.tsx, last
\* component), the one before it (page.tsx, second component) and layout.tsx.
Pages == {"status", "page", "layout"}

\* Faulty variant of HistoryLimit: every page keeps twenty items.
HistoryLimitTwenty(p) == 20

\* .slice(0, 20) of the search history, .slice(0, 10) in the older pages.
HistoryLimit(p) == IF p = "status" THEN 20 ELSE 10

\* setResults(null) at the start of a search: not in layout.tsx.
ClearsResults(p) == p # "layout"

\* !query.trim()
Blank(q) == trim(q) = <<>>

\* setTimeout(() => { if (isLoading) setSearchStatus(...) }, delay): the
\* callback tests the isLoading of the render that created the handler.
Timer(left, phase, progress, seen) ==
  [left |-> left, phase |-> phase, progress |-> progress, seen |-> seen]

\* handleSearch up to its await.  The submit button is disabled while
\* isLoading, so the handler runs in a render whose isLoading is false; limit
\* bounds the searches of a behaviour.
handleSearch(q, limit) ==
  /\ ~ui.isLoading
  /\ ui.submits < limit
  /\ ui' =
       IF Blank(q)
       THEN [ui EXCEPT !.query = q, !.toast = "error"]
       ELSE [ui EXCEPT
               !.pc = "fetching", !.query = q, !.isLoading = TRUE,
               !.seen = ui.isLoading,
               !.results = IF ClearsResults(page) THEN NoResults ELSE @,
               !.searchStatus = IF page = "status" THEN Status("searching", 20) ELSE @,
               !.storedValue = [searchHistory |-> ui.searchHistory,
                                totalSearches |-> ui.totalSearches],
               !.timers = IF page = "status"
                          THEN @ \cup {Timer(1, "analyzing", 50, ui.isLoading),
                                       Timer(2, "generating", 75, ui.isLoading)}
                          ELSE @,
               !.sent = @ + 1, !.submits = @ + 1, !.clk = 0,
               !.toast = "none", !.outcome = "none"]
  /\ UNCHANGED <<env, now, cache, req, nreq, hist, health, secrets, dbg, page>>

\* The ways the fetch of a search ends: fetch rejects, the status is not
\* 2xx, the body says success = false, or the search succeeded.
FetchOutcomes == {"network", "non2xx", "unsuccessful", "ok"}

\* setValue(prev => [item, ...prev].slice(0, n)) of useLocalStorage: prev is
\* the storedValue of the render that created the handler.
Saved(item, stored, n) == Slice(<<item>> \o stored, n)

\* handleSearch after its await: the success path, or the catch block, and
\* the finally block.
FetchSettle(out) ==
  /\ ui.pc = "fetching"
  /\ ui' =
       LET t == ui.stamp + 1
           settled == [ui EXCEPT
                         !.pc = "idle", !.outcome = out, !.isLoading = FALSE,
                         !.searchStatus = IF page = "status"
                                          THEN Status("complete", 100) ELSE @]
       IN IF out = "ok"
          THEN [settled EXCEPT
                  !.stamp = t,
                  !.results = [has |-> TRUE, stamp |-> t],
                  !.searchHistory =
                     Saved([query |-> trim(ui.query), timestamp |-> t],
                           ui.storedValue.searchHistory, HistoryLimit(page)),
                  !.totalSearches = ui.storedValue.totalSearches + 1,
                  !.toast = "success"]
          ELSE [settled EXCEPT !.toast = "error"]
  /\ UNCHANGED <<env, now, cache, req, nreq, hist, health, secrets, dbg, page>>

\* A timer whose delay has passed runs its callback.
TimerFire ==
  \E t \in ui.timers :
    /\ t.left = 0
    /\ ui' = [ui EXCEPT
                !.timers = @ \ {t},
                !.searchStatus = IF t.seen THEN Status(t.phase, t.progress) ELSE @]
    /\ UNCHANGED <<env, now, cache, req, nreq, hist, health, secrets, dbg, page>>

\* A second passes at the client; a timer that is due runs first.
ClientTick ==
  /\ ui.timers # {} \/ (ui.isLoading /\ ui.clk < MaxWait)
  /\ \A t \in ui.timers : t.left > 0
  /\ ui' = [ui EXCEPT
              !.clk = IF @ < MaxWait THEN @ + 1 ELSE @,
              !.timers = {[t EXCEPT !.left = @ - 1] : t \in ui.timers}]
  /\ UNCHANGED <<env, now, cache, req, nreq, hist, health, secrets, dbg, page>>

\* The texts typed into the search box.
ClientQueries == {<<" ">>, <<" ", "a">>}

InitClient ==
  /\ variant = "full"
  /\ serpKey = TRUE
  /\ aiKey = TRUE
  /\ now = 0
  /\ cache = <<>>
  /\ req = [r \in {"r1"} |-> Idle]
  /\ nreq = 0
  /\ lastOk = [k \in Keys |-> NoPrior]
  /\ evicted = {}
  /\ recency = <<>>
  /\ health = NoProbe
  /\ secrets = [OPENAI_API_KEY |-> Secret(aiKey), SERP_API_KEY |-> Secret(serpKey)]
  /\ dbg = DebugIdle
  /\ page \in Pages
  /\ ui = Mounted

\* A run of searches, one after the other, on each page.  The fetch of a
\* search settles: the server answers or the connection fails.
NextClient ==
  \/ \E q \in ClientQueries : handleSearch(q, MaxSearches)
  \/ \E out \in FetchOutcomes : FetchSettle(out)

SpecClient ==
  InitClient /\ [][NextClient]_vars /\ WF_vars(\E out \in FetchOutcomes : FetchSettle(out))

\* A few searches on the page with a search status, with the client's clock
\* and its timers.
InitStatus ==
  /\ InitClient
  /\ page = "status"

NextStatus ==
  \/ \E q \in ClientQueries : handleSearch(q, MaxStatusSearches)
  \/ \E out \in FetchOutcomes : FetchSettle(out)
  \/ TimerFire
  \/ ClientTick

SpecStatus == InitStatus /\ [][NextStatus]_vars

\* ------------------------------------------------------------------ claims

Answered(r) == req[r].pc = "done"

Started(r) == req[r].pc # "idle"

ValidString(q) == q.type = "string" /\ trim(q.str) # <<>>

\* The four shapes of C1: missing, not a string, empty, blank after trimming.
BlankOrInvalid(q) == ~BodyThrows(q) /\ ~ValidString(q)

\* C1 (as stated): a request whose query is missing, not a string, empty or
\* blank after trimming is answered 400 with the validation error.
C1_BlankQueryRejected ==
  \A r \in Slots :
    Answered(r) /\ BlankOrInvalid(req[r].query)
      => /\ req[r].resp.status = 400
         /\ req[r].resp.error = QueryRequired

\* C2 (as stated): when the search-provider call of a request has failed, the
\* response has success=false and a status outside 2xx.
C2_SearchFailureFails ==
  \A r \in Slots :
    Answered(r) /\ req[r].serp = "fail"
      => /\ req[r].resp.success = "false"
         /\ req[r].resp.status \notin 200..299

\* The fallback values of the insight fields, spelled out.
FallbackShaped(data) ==
  /\ data.practicalGuides = <<>>
  /\ data.theoreticalInsight = ""
  /\ data.contradictoryTake = ""
  /\ data.relatedSearches = <<>>
  /\ data.marketInsights.has = MarketFields
  /\ data.marketInsights.demandTrend = "stable"
  /\ data.marketInsights.trendPercentage = 0
  /\ data.marketInsights.averageSalary = "Not available"
  /\ data.marketInsights.salaryTrend = "stable"
  /\ data.marketInsights.jobGrowthRate = "N/A"
  /\ data.marketInsights.topCompanies = <<>>
  /\ data.marketInsights.requiredSkills = <<>>
  /\ data.marketInsights.locationInsights = <<>>
  /\ data.marketInsights.industryBreakdown = <<>>

\* Both completion calls of an answered request failed although the
\* credential is set, and its search call succeeded.
CompletionsDown(r) ==
  /\ Answered(r)
  /\ variant \in Settled
  /\ aiKey
  /\ req[r].marketOut.kind = Reject
  /\ req[r].insOut.kind = Reject
  /\ req[r].serp = "ok"

\* C3 (as stated): with the completion provider failing and the search
\* succeeding, the response is a success with a non-empty recommendation
\* list, fallback insight fields and a non-empty warnings string.
C3_PartialFailureWarns ==
  \A r \in Slots :
    CompletionsDown(r)
      => /\ req[r].resp.success = "true"
         /\ req[r].resp.data.recommendedWebsites # <<>>
         /\ FallbackShaped(req[r].resp.data)
         /\ req[r].resp.warnings \notin {Absent, ""}

\* C3 (amended): with the completion provider failing and the search
\* succeeding, the response is a 200 success whose recommendation list is the
\* fetcher's (non-empty exactly when the provider returned a result that is
\* not a job-board link), whose insight fields are the fallback values, and
\* which carries no warnings.
C3_PartialFailureFallback ==
  \A r \in Slots :
    CompletionsDown(r)
      => /\ req[r].resp.status = 200
         /\ req[r].resp.success = "true"
         /\ req[r].resp.data.recommendedWebsites = req[r].recs
         /\ (req[r].resp.data.recommendedWebsites # <<>>
               <=> \E i \in DOMAIN req[r].raw : ~IsJobBoard(req[r].raw[i]))
         /\ FallbackShaped(req[r].resp.data)
         /\ req[r].resp.warnings = Absent

\* C3 witness: such a response, with recommendations.
C3_Witness ==
  \E r \in Slots : CompletionsDown(r) /\ req[r].resp.data.recommendedWebsites # <<>>

\* The request found a computed success for its normal form that was stored
\* less than `within` ticks before and has not been evicted since.
PriorWithin(r, within) ==
  /\ ~InvalidQuery(req[r].query)
  /\ req[r].prior.has
  /\ ~req[r].priorEvicted
  /\ req[r].at - req[r].prior.at < within

\* C4 (as stated): a query repeated after a successful answer, before the TTL
\* elapses and with the entry not evicted, is answered cached=true with the
\* first answer's data and without any provider call.
C4_RepeatServedFromCache ==
  \A r \in Slots :
    Answered(r) /\ PriorWithin(r, TTL)
      => /\ req[r].resp.cached = "true"
         /\ req[r].resp.data = req[r].prior.data
         /\ req[r].serpCalls = 0
         /\ req[r].aiCalls = 0

InCache(k) == \E i \in DOMAIN cache : cache[i].key = k

\* C5: the cached handler reads and writes the entry named by the trimmed,
\* lower-cased query: a request's key is the normal form of its query, every
\* entry is held under a normal form with the last success computed for it,
\* a hit returns that success, and a request whose normal form has a live,
\* unevicted entry is a hit, whatever the case and outer blanks of the two
\* queries.
C5_CacheKeyNormalized ==
  /\ \A i \in DOMAIN cache :
       /\ cache[i].key \in Keys
       /\ lastOk[cache[i].key].has
       /\ cache[i].value = lastOk[cache[i].key].data
  /\ \A r \in Slots :
       variant = "cached" /\ Started(r) /\ ~InvalidQuery(req[r].query)
         => /\ req[r].key = NormalForm(req[r].query.str)
            /\ (Answered(r) /\ req[r].resp.cached = "true"
                  => req[r].prior.has /\ req[r].resp.data = req[r].prior.data)
            /\ (PriorWithin(r, TTL) => Answered(r) /\ req[r].resp.cached = "true")

\* C5 witness: a hit on an entry stored by a request that spelled the query
\* differently.
C5_Witness ==
  \E r \in Slots :
    /\ Answered(r)
    /\ req[r].resp.status = 200
    /\ req[r].resp.cached = "true"
    /\ req[r].prior.by # req[r].query.str

\* The age, at the request's arrival, of the last success computed for its query.
PriorAge(r) == req[r].at - req[r].prior.at

CachedRequest(r) == variant = "cached" /\ Started(r) /\ ~InvalidQuery(req[r].query)

\* C6 (as stated): an entry is served only while less than the TTL has
\* elapsed since its insertion.
C6_ServedOnlyBeforeTTL ==
  \A r \in Slots :
    CachedRequest(r) /\ Answered(r) /\ req[r].resp.cached = "true"
      => PriorAge(r) < TTL

\* C6 (amended): an entry is served only while at most the TTL has elapsed
\* since its insertion, hits not extending its life; once more than the TTL
\* has elapsed the get is a miss, the entry is purged, and the repeated query
\* issues fresh provider calls and is answered cached=false.
C6_Expiry ==
  \A r \in Slots :
    CachedRequest(r)
      => /\ (Answered(r) /\ req[r].resp.cached = "true" => PriorAge(r) <= TTL)
         /\ (req[r].prior.has /\ PriorAge(r) > TTL
               => /\ req[r].serpCalls = 1
                  /\ req[r].aiCalls >= 1
                  /\ (Answered(r) => req[r].resp.cached # "true")
                  /\ (Answered(r) /\ req[r].resp.status = 200
                        => req[r].resp.cached = "false"))
         /\ (req[r].pc = "waiting" => ~InCache(req[r].key))

\* C6 witness: a repeated query answered afresh, its entry having expired.
C6_Witness ==
  \E r \in Slots :
    /\ CachedRequest(r)
    /\ Answered(r)
    /\ req[r].prior.has
    /\ PriorAge(r) > TTL
    /\ req[r].resp.cached = "false"

\* The position of key k in the order of last use.
Pos(k) == CHOOSE i \in DOMAIN recency : recency[i] = k

\* C7: the cache never holds more than its capacity; its entries are in the
\* order of their last use, a hit and a store both counting as a use; and a
\* key evicted from the full cache was, among the keys held, the least
\* recently used: it is older in that order than every key still held.
C7_CapacityAndLru ==
  /\ Len(cache) <= CacheMax
  /\ \A i, j \in DOMAIN cache : i < j => Pos(cache[i].key) < Pos(cache[j].key)
  /\ \A e \in evicted : \A i \in DOMAIN cache : Pos(e) < Pos(cache[i].key)

\* C7 witness: a store into the full cache evicted a key that was stored
\* after a key still held, the older key having been hit since.
C7_Witness ==
  /\ Len(cache) = CacheMax
  /\ \E e \in evicted : \E i \in DOMAIN cache :
       lastOk[cache[i].key].at < lastOk[e].at

\* C8: with SERPAPI_KEY absent, a request with a valid query is answered 500
\* with the error 'SerpAPI key is not configured', and no call is made to the
\* search provider or to the AI provider.
C8_SerpKeyMissingFails ==
  ~serpKey =>
    \A r \in Slots :
      Started(r) /\ ~InvalidQuery(req[r].query)
        => /\ req[r].serpCalls = 0
           /\ req[r].aiCalls = 0
           /\ (Answered(r) => /\ req[r].resp.status = 500
                              /\ req[r].resp.error = SerpKeyMissing)

\* C9: in the allSettled handlers, with OPENAI_API_KEY absent and the search
\* done, no AI call is made, both generators are replaced by their fallback
\* values, and the response is a success whose message is 'Search complete
\* (AI skipped)' and whose warnings are a non-empty string; with the key
\* present a success carries no warnings.
C9_DegradedMode ==
  \A r \in Slots :
    variant \in Settled /\ Started(r)
      => /\ (~aiKey => req[r].aiCalls = 0)
         /\ (Answered(r) /\ req[r].resp.status = 200
               => IF aiKey
                  THEN /\ req[r].resp.warnings = Absent
                       /\ req[r].resp.data.message = StatusMessage(TRUE)
                  ELSE /\ req[r].serp = "ok"
                       /\ req[r].resp.success = "true"
                       /\ FallbackShaped(req[r].resp.data)
                       /\ req[r].resp.data.recommendedWebsites = req[r].recs
                       /\ req[r].resp.data.message = "Search complete (AI skipped)"
                       /\ req[r].resp.warnings \notin {Absent, ""})
         /\ (Answered(r) /\ ~aiKey /\ req[r].serp = "ok" => req[r].resp.status = 200)

\* C9 witness: a search answered in degraded mode, with recommendations.
C9_Witness ==
  \E r \in Slots :
    /\ variant \in Settled
    /\ ~aiKey
    /\ Answered(r)
    /\ req[r].resp.status = 200
    /\ req[r].recs # <<>>

\* C10: the handler answers only once every call it launched has settled.
C10_WaitsForAll == \A r \in Slots : Answered(r) => Quiet(req[r])

GeneratorFailed(out) == out.kind \in {Reject, Unparseable}

\* C11 (as stated): with the AI credential set, when the search call of a
\* valid request has succeeded, the response is 200 with success=true whatever the generator calls did; a
\* failed generator contributes its fallback value and a generator that
\* returned valid JSON contributes that value.
C11_SearchAloneDecides ==
  \A r \in Slots :
    aiKey /\ Answered(r) /\ ~InvalidQuery(req[r].query) /\ req[r].serp = "ok"
      => /\ req[r].resp.status = 200
         /\ req[r].resp.success = "true"
         /\ (GeneratorFailed(req[r].insOut)
               => /\ req[r].resp.data.practicalGuides = <<>>
                  /\ req[r].resp.data.theoreticalInsight = ""
                  /\ req[r].resp.data.contradictoryTake = ""
                  /\ req[r].resp.data.relatedSearches = <<>>)
         /\ (req[r].insOut.kind = Json /\ req[r].insOut.obj.has = InsightFields
               => /\ req[r].resp.data.practicalGuides = req[r].insOut.obj.practicalGuides
                  /\ req[r].resp.data.relatedSearches = req[r].insOut.obj.relatedSearches)
         /\ (variant \in Settled /\ GeneratorFailed(req[r].marketOut)
               => req[r].resp.data.marketInsights = FallbackMarket)
         /\ (variant \in Settled /\ req[r].marketOut.kind = Json
               => req[r].resp.data.marketInsights = Market)

\* C12 (as stated): in the allSettled handlers, a generator whose output does
\* not parse or lacks required fields gives the documented fallback:
\* generateInsights gives [] / '' for every missing field, getMarketInsights
\* the full neutral record.
C12_GeneratorsFallBack ==
  \A r \in Slots :
    variant \in Settled /\ aiKey /\ Answered(r) /\ req[r].resp.status = 200
      => /\ \A f \in InsightFields :
              req[r].ins = "fulfilled" /\ req[r].insOut.kind # Json
                => req[r].resp.data[f] = FallbackInsights[f]
         /\ (req[r].insOut.kind = Json /\ req[r].insOut.obj = PartialInsights
               => /\ req[r].resp.data.practicalGuides = PartialInsights.practicalGuides
                  /\ req[r].resp.data.theoreticalInsight = ""
                  /\ req[r].resp.data.contradictoryTake = ""
                  /\ req[r].resp.data.relatedSearches = <<>>)
         /\ (req[r].marketOut.kind \in {Unparseable, Empty}
               => req[r].resp.data.marketInsights = FallbackMarket)

\* The entries of cache c that a get at time t can still return, in order.
LiveAt(c, t) == SelectSeq(c, LAMBDA e : ~IsStale(e, t))

\* The step answers a request with a success.
Answers200 ==
  \E r \in Slots :
    /\ req[r].pc # "done" \/ nreq' # nreq
    /\ req'[r].pc = "done"
    /\ req'[r].resp.status = 200

C14_OneValuePerQuery ==
  \A r, s \in Slots :
    /\ Answered(r) /\ req[r].resp.status = 200
    /\ Answered(s) /\ req[s].resp.status = 200
    /\ req[r].key = req[s].key
    /\ ~req[r].priorEvicted /\ ~req[s].priorEvicted
    /\ req[r].at - req[s].at <= TTL /\ req[s].at - req[r].at <= TTL
    => req[r].resp.data = req[s].resp.data

\* The step in which request s stores its response.
Stores(s) ==
  /\ req[s].pc = "waiting"
  /\ req'[s].pc = "done"
  /\ req'[s].resp.status = 200

\* C15 (as stated): between the miss of a request and its own store, no
\* other request stores to the cache.
C15_GetSetPairAtomic ==
  [][\A r, s \in {"r1", "r2"} :
       r # s /\ req[r].pc = "waiting" /\ req[r].gets = 1 => ~Stores(s)]_vars

\* C16 (as stated): every value held in the cache was computed by a request
\* whose search-provider call succeeded, and a request answered with an error
\* has written nothing: after a single failed request the cache is empty.
C16_OnlySuccessfulSearchCached ==
  /\ \A i \in DOMAIN cache :
       /\ lastOk[cache[i].key].has
       /\ lastOk[cache[i].key].data = cache[i].value
       /\ lastOk[cache[i].key].serp = "ok"
  /\ \A r \in Slots :
       Answered(r) /\ req[r].resp.status # 200 /\ nreq = 1 => cache = <<>>

\* An empty or non-string query.
Refused(q) == q.type # "string" \/ q.str = <<>>

Fetched(r) == variant \in Settled /\ req[r].serp = "ok"

\* The indices of the results of raw that are not a job board's.
KeptIndices(raw) ==
  {i \in DOMAIN raw :
     raw[i].link \cap {"linkedin.com/jobs", "indeed.com", "glassdoor.com/Job"} = {}}

\* max(100 - 5p, 50)
ScoreOf(p) == IF 100 - 5 * p >= 50 THEN 100 - 5 * p ELSE 50

\* Nothing of the list is dropped or cut.
KeptWhole(r) ==
  /\ KeptIndices(req[r].raw) = DOMAIN req[r].raw
  /\ Len(req[r].raw) <= Cap(variant)

\* C18 (as stated): the score of a recommendation is max(100 - 5*rank, 50),
\* rank being the zero-based index of the result in the provider's list: a
\* list of which nothing is dropped or cut is scored 100, 95, 90, ...
C18_ScoreByRank ==
  \A r \in Slots :
    Fetched(r) /\ KeptWhole(r)
      => /\ Len(req[r].recs) = Len(req[r].raw)
         /\ \A i \in DOMAIN req[r].recs :
              req[r].recs[i].relevanceScore = ScoreOf(i - 1)

\* C18 (amended): the score of a recommendation is max(100 - 5*position, 50),
\* position being the result's position field (0 when missing), whatever its
\* index in the list: every score lies in 50..100, each score occurs among
\* the recommendations at most as often as among the kept results, and as
\* often when nothing is cut; a list numbered by the provider from 1 is
\* scored 95, 90, 85, ...; the same list always gets the same scores.
C18_ScoreByPosition ==
  \A r \in Slots :
    Fetched(r)
      => LET raw == req[r].raw
             recs == req[r].recs
             kept == KeptIndices(raw)
             Among(v) == Cardinality({i \in kept : ScoreOf(raw[i].position) = v})
             Given(v) == Cardinality({j \in DOMAIN recs : recs[j].relevanceScore = v}) IN
         /\ \A j \in DOMAIN recs : recs[j].relevanceScore \in 50..100
         /\ \A v \in 50..100 :
              /\ Given(v) <= Among(v)
              /\ (Cardinality(kept) <= Cap(variant) => Given(v) = Among(v))
         /\ (KeptWhole(r) /\ (\A i \in DOMAIN raw : raw[i].position = i)
               => \A i \in DOMAIN recs : recs[i].relevanceScore = ScoreOf(i))

\* C18 witness: a long list numbered from 1 has been scored: its first
\* recommendation has 95, its last 50.
C18_Witness ==
  \E r \in Slots :
    /\ Fetched(r)
    /\ Len(req[r].raw) >= 11
    /\ \A i \in DOMAIN req[r].raw : req[r].raw[i].position = i
    /\ req[r].recs[1].relevanceScore = 95
    /\ req[r].recs[Len(req[r].recs)].relevanceScore = 50

\* The recommendations the fetcher returned for request r.
RecsOf(r) == {req[r].recs[i] : i \in DOMAIN req[r].recs}

\* C19 (as stated): a recommendation whose URL contains github.com is a
\* 'Code Repository' of trust 90, and one whose URL contains coursera.org is
\* a premium 'Learning Platform', whatever else the URL contains.
C19_DomainDecidesCategory ==
  \A r \in Slots :
    Fetched(r)
      => \A rec \in RecsOf(r) :
           /\ ("github.com" \in rec.url
                 => rec.category = "Code Repository" /\ rec.trustScore = 90)
           /\ ("coursera.org" \in rec.url
                 => rec.category = "Learning Platform" /\ rec.isPremium)

\* C19 (amended): a recommendation whose URL contains github.com has trust
\* 90, and is a 'Code Repository' unless the URL also contains medium.com or
\* dev.to, which make it a 'Tech Blog'; one whose URL contains coursera.org
\* is premium, and is a 'Learning Platform' unless the URL also contains
\* medium.com, dev.to, github.com or stackoverflow.com, the first category
\* tested deciding.
C19_FirstMatchDecidesCategory ==
  \A r \in Slots :
    Fetched(r)
      => \A rec \in RecsOf(r) :
           LET blog == rec.url \cap {"medium.com", "dev.to"} # {} IN
           /\ ("github.com" \in rec.url
                 => /\ rec.trustScore = 90
                    /\ rec.category = IF blog THEN "Tech Blog" ELSE "Code Repository")
           /\ ("coursera.org" \in rec.url
                 => /\ rec.isPremium
                    /\ rec.category =
                         IF blog THEN "Tech Blog"
                         ELSE IF "github.com" \in rec.url THEN "Code Repository"
                         ELSE IF "stackoverflow.com" \in rec.url THEN "Q&A Forum"
                         ELSE "Learning Platform")

\* C19 witness: a URL of two domains has been classified, next to a plain
\* github.com one.
C19_Witness ==
  \E r \in Slots :
    /\ Fetched(r)
    /\ \E rec \in RecsOf(r) :
         /\ rec.url = {"github.com", "coursera.org"}
         /\ rec.category = "Code Repository"
         /\ rec.isPremium
    /\ \E rec \in RecsOf(r) :
         /\ rec.url = {"github.com"}
         /\ rec.category = "Code Repository"
         /\ rec.trustScore = 90

\* The place of the kept result i of raw among the kept results, by score
\* and, among equal scores, by order in the provider's list.
PlaceOf(raw, i) ==
  1 + Cardinality({k \in KeptIndices(raw) :
        \/ ScoreOf(raw[k].position) > ScoreOf(raw[i].position)
        \/ ScoreOf(raw[k].position) = ScoreOf(raw[i].position) /\ k < i})

\* C20: the list the fetcher returns is sorted by non-increasing
\* relevanceScore, has at most the cap of entries (10 in the allSettled
\* handler, 6 in the job-listing one), and holds the cap highest-scoring
\* results that were not dropped, equal scores in the provider's order.
C20_SortedAndCapped ==
  \A r \in Slots :
    Fetched(r)
      => LET raw == req[r].raw
             recs == req[r].recs
             kept == KeptIndices(raw)
             cap == IF variant = "jobs" THEN 6 ELSE 10 IN
         /\ \A i, j \in DOMAIN recs :
              i < j => recs[i].relevanceScore >= recs[j].relevanceScore
         /\ Len(recs) <= cap
         /\ Len(recs) = IF Cardinality(kept) < cap THEN Cardinality(kept) ELSE cap
         /\ \A i \in kept :
              PlaceOf(raw, i) <= cap
                => /\ recs[PlaceOf(raw, i)].url = raw[i].link
                   /\ recs[PlaceOf(raw, i)].relevanceScore = ScoreOf(raw[i].position)

\* C20 witness: a list with more kept results than the cap, numbered against
\* its order and with equal scores, has been sorted and cut.
C20_Witness ==
  \E r \in Slots :
    /\ Fetched(r)
    /\ Cardinality(KeptIndices(req[r].raw)) > Len(req[r].recs)
    /\ req[r].raw[1].position > req[r].raw[2].position
    /\ ScoreOf(req[r].raw[1].position) = ScoreOf(req[r].raw[2].position)
    /\ req[r].recs[1].relevanceScore > req[r].recs[Len(req[r].recs)].relevanceScore

\* C21: every recommendation of the fetcher has its relevanceScore within
\* 0..100, a result without position field included, and its trustScore
\* one of 70, 80 and 90.
C21_ScoresInRange ==
  \A r \in Slots :
    Fetched(r)
      => \A rec \in RecsOf(r) :
           /\ rec.relevanceScore >= 0
           /\ rec.relevanceScore <= 100
           /\ rec.trustScore \in {70, 80, 90}

\* C21 witness: a result far down the provider's numbering, of a URL with
\* two known domains, has been scored.
C21_Witness ==
  \E r \in Slots :
    /\ Fetched(r)
    /\ Len(req[r].raw) = 1
    /\ req[r].raw[1].position > 20
    /\ Cardinality(req[r].raw[1].link) = 2
    /\ Len(req[r].recs) = 1
    /\ req[r].recs[1].relevanceScore = 50
    /\ req[r].recs[1].trustScore = 90

\* C24: no recommendation of the fetcher has a URL containing
\* 'linkedin.com/jobs', 'indeed.com' or 'glassdoor.com/Job', and the filter
\* drops nothing else: before the cut every result without these patterns is
\* kept, each URL as often as the provider gave it.
C24_JobBoardsDropped ==
  \A r \in Slots :
    Fetched(r)
      => LET raw == req[r].raw
             recs == req[r].recs
             clean == {i \in DOMAIN raw :
                         /\ "linkedin.com/jobs" \notin raw[i].link
                         /\ "indeed.com" \notin raw[i].link
                         /\ "glassdoor.com/Job" \notin raw[i].link} IN
         /\ \A j \in DOMAIN recs :
              /\ "linkedin.com/jobs" \notin recs[j].url
              /\ "indeed.com" \notin recs[j].url
              /\ "glassdoor.com/Job" \notin recs[j].url
         /\ IF Cardinality(clean) <= Cap(variant)
            THEN \A i \in clean :
                   Cardinality({j \in DOMAIN recs : recs[j].url = raw[i].link})
                     = Cardinality({k \in clean : raw[k].link = raw[i].link})
            ELSE Len(recs) = Cap(variant)

\* C24 witness: of a list with one result of glassdoor's job pages, all the
\* other results have been kept.
C24_Witness ==
  \E r \in Slots :
    /\ Fetched(r)
    /\ Len(req[r].raw) > 5
    /\ req[r].raw[5].link = {"glassdoor.com/Job"}
    /\ Len(req[r].recs) = Len(req[r].raw) - 1

\* The category the ordered rule table gives a URL, the first match winning.
TableCategory(url) ==
  CASE url \cap {"medium.com", "dev.to"} # {} -> "Tech Blog"
    [] OTHER ->
  CASE "github.com" \in url -> "Code Repository"
    [] OTHER ->
  CASE "stackoverflow.com" \in url -> "Q&A Forum"
    [] OTHER ->
  CASE url \cap {"coursera.org", "udemy.com"} # {} -> "Learning Platform"
    [] OTHER ->
  CASE "wikipedia.org" \in url -> "Reference"
    [] OTHER -> "Resource"

\* The reputation tier of a category.
TierOf(category) ==
  CASE category \in {"Reference", "Code Repository", "Q&A Forum"} -> 90
    [] category \in {"Tech Blog", "Learning Platform"} -> 80
    [] OTHER -> 70

\* C25 (as stated): the category is the first match of the ordered rule
\* table, and trustScore is the tier of that category.
C25_TrustFollowsCategory ==
  \A r \in Slots :
    Fetched(r)
      => \A rec \in RecsOf(r) :
           /\ rec.category = TableCategory(rec.url)
           /\ rec.trustScore = TierOf(rec.category)

\* C25 (amended): the category is the first match of the ordered rule table;
\* trustScore comes from a table of its own over the URL: 90 when the URL
\* contains github.com, stackoverflow.com or wikipedia.org, else 80 when it
\* contains medium.com, dev.to or coursera.org, else 70.  It is the tier of
\* the category for a URL of at most one known domain other than udemy.com;
\* a udemy.com URL is a 'Learning Platform' of trust 70.
C25_TrustHasOwnTable ==
  \A r \in Slots :
    Fetched(r)
      => \A rec \in RecsOf(r) :
           /\ rec.category = TableCategory(rec.url)
           /\ rec.trustScore =
                IF rec.url \cap {"github.com", "stackoverflow.com", "wikipedia.org"} # {}
                THEN 90
                ELSE IF rec.url \cap {"medium.com", "dev.to", "coursera.org"} # {}
                THEN 80 ELSE 70
           /\ (Cardinality(rec.url) <= 1 /\ "udemy.com" \notin rec.url
                 => rec.trustScore = TierOf(rec.category))
           /\ (rec.url = {"udemy.com"}
                 => rec.category = "Learning Platform" /\ rec.trustScore = 70)

\* C25 witness: a udemy.com result has been classified.
C25_Witness ==
  \E r \in Slots :
    /\ Fetched(r)
    /\ \E rec \in RecsOf(r) :
         /\ rec.url = {"udemy.com"}
         /\ rec.category = "Learning Platform"
         /\ rec.trustScore = 70

\* C26: in every recommendation that carries an accessType, isPremium is true
\* exactly when accessType is 'premium'; 'free', 'registration' and 'unknown'
\* occur only with isPremium false, and no other accessType occurs.
C26_PremiumAgrees ==
  \A r \in Slots :
    Fetched(r)
      => \A rec \in RecsOf(r) :
           rec.accessType # Absent
             => /\ rec.isPremium = (rec.accessType = "premium")
                /\ rec.accessType \in {"premium", "free", "registration", "unknown"}
                /\ (rec.accessType \in {"free", "registration", "unknown"}
                      => ~rec.isPremium)

\* C26 witness: a result whose URL contains both udemy.com and github.com has
\* been built; it is premium, the premium branches coming first.
C26_Witness ==
  \E r \in Slots :
    /\ Fetched(r)
    /\ \E rec \in RecsOf(r) :
         /\ rec.url = {"github.com", "udemy.com"}
         /\ rec.isPremium
         /\ rec.accessType = "premium"

\* getWebsiteRecommendations of the request has failed: the key is missing,
\* the search call failed, or the curation completion gave nothing usable.
WebFailed(r) ==
  \/ ~serpKey
  \/ req[r].serp = "fail"
  \/ req[r].cur = "done" /\ req[r].recs = <<>>

\* The insights completion of the request has failed or cannot be parsed.
InsightsFailed(r) ==
  req[r].ins = "rejected" \/ req[r].insOut.kind = Unparseable

\* C27: in the cached handler a failure of getWebsiteRecommendations is
\* absorbed (recommendedWebsites = [], success = true, cached = false, the
\* response stored under the request's key), and a failed or unparseable
\* insights completion answers 500 and stores nothing.
C27_CachedFailurePolicy ==
  \A r \in Slots :
    variant = "cached" /\ Answered(r) /\ req[r].gets = 1 /\ req[r].aiCalls > 0
      => /\ InsightsFailed(r)
            => /\ req[r].resp.status = 500
               /\ req[r].resp.success = "false"
               /\ ~InCache(req[r].key)
         /\ WebFailed(r) /\ ~InsightsFailed(r)
            => /\ req[r].resp.status = 200
               /\ req[r].resp.success = "true"
               /\ req[r].resp.cached = "false"
               /\ req[r].resp.data.recommendedWebsites = <<>>
               /\ \E i \in DOMAIN cache :
                    cache[i].key = req[r].key /\ cache[i].value = req[r].resp.data

\* C27 witness: a failed search call has been answered 200 with no
\* recommendations, and the answer is in the cache.
C27_Witness ==
  \E r \in Slots :
    /\ variant = "cached"
    /\ Answered(r)
    /\ req[r].serp = "fail"
    /\ req[r].resp.status = 200
    /\ req[r].resp.data.recommendedWebsites = <<>>
    /\ InCache(req[r].key)

\* C23: a health check answers status 'healthy' with a version string and
\* the time of the call, and the step that answers it changes nothing else:
\* no request's state or call count, no cache entry, whatever is in flight.
C23_HealthCheckNoEffect ==
  [][health' # health
       => /\ health'.status = "healthy"
          /\ health'.version # ""
          /\ health'.timestamp = now
          /\ UNCHANGED <<cache, req, nreq, lastOk, evicted, recency, env, now>>]_vars

\* C23 witness: a health check has been answered while a search request was
\* waiting for its provider calls.
C23_Witness ==
  /\ health.status = "healthy"
  /\ health.version = "2.0.0"
  /\ health.timestamp = now
  /\ now > 0
  /\ req["r1"].pc = "waiting"
  /\ req["r1"].serp = "pending"

\* C30: the environment field of a debug response holds a mark per key that
\* depends only on whether the key is set, so any credentials of the same
\* presence give the same field; the test call is made only when the search
\* key is set, serpApiTest being null otherwise; and a failing test call is
\* answered normally with serpApiTest.status = 'error'.
C30_DebugHidesKeys ==
  /\ dbg.pc = "testing" => Truthy(secrets.SERP_API_KEY) /\ dbg.calls = 1
  /\ dbg.pc = "done"
       => /\ \A k \in {"OPENAI_API_KEY", "SERP_API_KEY"} :
               dbg.resp.environment[k] = IF Truthy(secrets[k]) THEN "Set" ELSE "Missing"
          /\ \A other \in [OPENAI_API_KEY : DebugKeyValues, SERP_API_KEY : DebugKeyValues] :
               (\A k \in DOMAIN other : Truthy(other[k]) = Truthy(secrets[k]))
                 => EnvStatus(other) = dbg.resp.environment
          /\ dbg.calls = IF Truthy(secrets.SERP_API_KEY) THEN 1 ELSE 0
          /\ (dbg.resp.serpApiTest.status = "null") = ~Truthy(secrets.SERP_API_KEY)
          /\ dbg.outcome \in {"throws", "unreadable"}
               => /\ dbg.resp.status = 200
                  /\ dbg.resp.serpApiTest.status = "error"

\* C30 witness: with the search key set, the test call has failed and the
\* response reports it.
C30_Witness ==
  /\ dbg.pc = "done"
  /\ secrets.SERP_API_KEY = Str(<<"j">>)
  /\ dbg.outcome = "throws"
  /\ dbg.resp.status = 200
  /\ dbg.resp.serpApiTest.status = "error"
  /\ dbg.resp.environment.SERP_API_KEY = "Set"

\* The fetch of the last search ended in a failure.
SearchFailed == ui.pc = "idle" /\ ui.outcome \in {"network", "non2xx", "unsuccessful"}

\* C22 (as stated): every submitted non-blank query issues exactly one
\* request; after a failure the displayed results are empty and the search
\* history and the analytics counter are what they were at submission; and
\* the loading flag, once set, is eventually reset.
C22_ClientFailure ==
  /\ [](ui.sent = ui.submits)
  /\ [](SearchFailed
          => /\ ui.results = NoResults
             /\ ui.searchHistory = ui.storedValue.searchHistory
             /\ ui.totalSearches = ui.storedValue.totalSearches)
  /\ (ui.isLoading ~> ~ui.isLoading)

\* C28 (as stated): while a search is in flight the status is 'analyzing'
\* (50) once a second has passed and 'generating' (75) once two have, and
\* after the search has finished the status is 'complete' whatever timers
\* fire.
C28_StatusAdvances ==
  page = "status" /\ ui.submits > 0 /\ (\A t \in ui.timers : t.left > 0)
    => /\ ui.isLoading /\ ui.clk = 1 => ui.searchStatus = Status("analyzing", 50)
       /\ ui.isLoading /\ ui.clk >= 2 => ui.searchStatus = Status("generating", 75)
       /\ ~ui.isLoading => ui.searchStatus = Status("complete", 100)

\* C29: the search history holds at most 20 items (10 in the older pages),
\* newest first, and is exactly the most recent successful searches: one item
\* per success, the oldest leaving when the bound is exceeded.
C29_HistoryBounded ==
  LET limit == IF page = "status" THEN 20 ELSE 10
      h == ui.searchHistory
  IN /\ Len(h) <= limit
     /\ Len(h) = IF ui.stamp < limit THEN ui.stamp ELSE limit
     /\ \A i \in DOMAIN h : h[i].timestamp = ui.stamp - i + 1
     /\ \A i, j \in DOMAIN h : i < j => h[i].timestamp > h[j].timestamp
     /\ ui.totalSearches = ui.stamp

\* C29 witness: the twenty-first successful search has pushed the first one
\* out of a full history.
C29_Witness ==
  /\ page = "status"
  /\ ui.pc = "idle"
  /\ ui.outcome = "ok"
  /\ ui.stamp = 21
  /\ Len(ui.searchHistory) = 20
  /\ ui.searchHistory[1].timestamp = 21
  /\ ui.searchHistory[20].timestamp = 2

====
